---- MODULE Spec2Model ----
(***************************************************************************)
(* A model of the logging delivery subsystem of the bot template:          *)
(* DiscordWebHookHandler (src/logging_/handlers.py), the buffered webhook  *)
(* dispatcher.  Application threads call emit(); a dedicated event-loop    *)
(* thread runs the _flush() coroutines, the periodic task and the sends.   *)
(* Time is a discrete clock, one tick being one second.                    *)
(* Further parts: DualRotatingHandler, the rotating file handler of the    *)
(* same file (SpecR, SpecE: one thread; SpecT: several threads; SpecP: its *)
(* rotation policy), the constructor of the dispatcher (SpecC), and the    *)
(* memoize decorator of src/utilities/decorators.py (SpecM).               *)
(***************************************************************************)
EXTENDS Integers, Sequences, FiniteSets, TLC

\* ------------------------------------------------------------------ bounds
MaxTime == 2        \* the clock runs from 0 to MaxTime
MaxEmits == 2       \* LogRecords created in one behaviour
MaxFlushes == 2     \* _flush() coroutines handed to the loop in one behaviour
MaxCapacity == 2    \* capacity is drawn from 1..MaxCapacity
MaxPeriod == 2      \* flush_interval and throttle_limit are drawn from 1..MaxPeriod
MaxBackups == 2     \* backup_count is drawn from 0..MaxBackups
HealthyFrom == 1    \* in the retry specification, sends answered at or after this time succeed
MaxBytes == 1       \* max_bytes is drawn from 0..MaxBytes
MaxInterval == 2    \* interval is drawn from 1..MaxInterval
MaxRTime == 2       \* the clock of the file handler runs from 0 to MaxRTime
MaxRollovers == 3   \* do_rollover() calls in one behaviour
MaxREmits == 2      \* emit() calls on the file handler in one behaviour
MaxFail == 5        \* the filesystem call of a rollover that raises is drawn from 1..MaxFail
MaxCalls == 3       \* calls of emit() and do_rollover() made by the threads of SpecT
MaxDay == 8         \* the calls of compute_rollover() happen on days 0..MaxDay, day 0 a Monday
MaxEvery == 2       \* self.interval of the policies of SpecP is drawn from 1..MaxEvery
MaxCacheSize == 2   \* max_cache_size is drawn from -1..MaxCacheSize
MaxMemoCalls == 4   \* calls of the memoized function

\* The separator of "\n".join(...): message tokens are the record ids 1, 2, ...
NL == 0

Threads == {"t1", "t2"}

VARIABLES
    capacity,         \* self.capacity
    flush_interval,   \* self.flush_interval
    throttle_limit,   \* self.throttle_limit
    flush_on_close,   \* self.flush_on_close
    has_format_batch, \* hasattr(self.formatter, "format_batch")
    buffer,           \* self.buffer
    last_sent_time,   \* self.last_sent_time
    rlock_count,      \* recursion depth of self.reentrant_lock held by the loop thread
    tasks,            \* the unfinished _flush() coroutines on self.loop, in scheduling order
    flush_task,       \* self.flush_task, the _periodic_flush() task
    wake_at,          \* deadline of the asyncio.sleep of the periodic task
    close_st,         \* position of the thread that calls close()
    pc,               \* position of each application thread
    created,          \* number of LogRecords appended so far
    scheduled,        \* number of _flush() coroutines handed to the loop so far
    requests,         \* number of webhook requests made by flushes so far
    close_future,     \* the future close() waits on for its final flush
    last_soft_send,   \* time of the latest request of a periodic or throttle flush, -1 if none
    now,              \* time.time()
    close_created,    \* number of records appended when close() was called without
                      \* flush_on_close, -1 before
    \* DiscordWebHookHandler.__init__ and its validation
    ctor_st,          \* position of the thread that calls the constructor
    loop_running,     \* self.loop.is_running()
    validation,       \* the _validate_parameters() coroutine and its unretrieved future
    proxy,            \* self.proxy
    \* DualRotatingHandler and the directory of its log file
    backup_count,     \* self.backup_count
    backup_extension_type, \* self.backup_extension_type
    max_bytes,        \* self.max_bytes, in units of one formatted record
    interval,         \* self.interval, when being a fixed unit (S, M, H, D)
    stream,           \* self.stream: "none", "open" or "closed"
    live,             \* the file at self.baseFilename
    numbered,         \* the files <base>.1, <base>.2, ...
    stamped,          \* the files of the directory that match timestamp_pattern
    rollover_at,      \* self.rollover_at
    rnow,             \* the clock the handler reads, in timestamp units
    rotated,          \* what each completed do_rollover() rotated out, in order
    failed,           \* number of do_rollover() calls that raised
    opened,           \* number of files created at self.baseFilename so far
    emitted,          \* number of emit() calls so far
    emit_res,         \* how the latest emit() call ended
    \* threads that call emit() and do_rollover() of one DualRotatingHandler
    holder,           \* the thread that holds self.reentrant_lock, "none" if free
    tcall,            \* the method each thread has called, "none" between calls
    tstep,            \* the step of the call each thread is about to take
    calls,            \* number of calls made so far
    \* the rotation policy of a DualRotatingHandler and the clock
    when,             \* self.when
    at_time,          \* self.at_time, in seconds of the day, -1 if None
    clock,            \* the instant of the call, a timestamp in seconds
    dst,              \* the local time zone sets its clocks back one hour at FallBack
    current,          \* the current_time passed to compute_rollover(), Never before
    next_rollover,    \* what compute_rollover() returned, -1 before
    \* a function decorated with memoize (src/utilities/decorators.py)
    max_cache_size,   \* the max_cache_size argument of memoize
    eviction_policy,  \* the eviction_policy argument
    fast,             \* the fast argument
    cache,            \* func.__cache__ with func.__access_count__: the entries in dict order
    last_use,         \* for each key, the number of the latest call that looked it up
    mcalls,           \* number of calls of the decorated function so far
    computed,         \* number of calls of the undecorated function so far
    last_args,        \* the argument of the latest call
    returned          \* what the latest call returned

dispatcher == <<capacity, flush_interval, throttle_limit, flush_on_close, has_format_batch,
                buffer, last_sent_time, rlock_count, tasks, flush_task, wake_at,
                close_st, pc, created, scheduled, requests, close_future,
                last_soft_send, now, close_created>>

construction == <<ctor_st, loop_running, validation, proxy>>

rotation == <<backup_count, backup_extension_type, max_bytes, interval, stream, live,
              numbered, stamped, rollover_at, rnow, rotated, failed, opened, emitted,
              emit_res>>

threads == <<holder, tcall, tstep, calls>>

policy == <<when, at_time, clock, dst, current, next_rollover>>

memo == <<max_cache_size, eviction_policy, fast, cache, last_use, mcalls, computed,
          last_args, returned>>

others == <<threads, policy, memo>>

vars == <<dispatcher, construction, rotation, others>>

config == <<capacity, flush_interval, throttle_limit, flush_on_close, has_format_batch>>

\* ------------------------------------------------------ records and values
\* What the formatter collaborator makes of a record: a non-empty string, the
\* empty string, a mapping {"embeds": [embed]}, or an embed mapping itself
\* (DiscordEmbedLoggingFormatter.format returns embed.to_dict()).
Outputs == {"text", "empty", "wrapped", "embed"}

RecordPool ==
    {[is_urgent |-> FALSE, out |-> o] : o \in Outputs} \cup {[is_urgent |-> TRUE, out |-> "text"]}

\* A Python value: a str (text) or a dict (its key set; the value under
\* "content"; the key set of the first element under "embeds").
StrVal(s, id) == [type |-> "str", text |-> s, keys |-> {}, inner |-> {}, id |-> id]

DictVal(ks, s, inner, id) == [type |-> "dict", text |-> s, keys |-> ks, inner |-> inner, id |-> id]

EmbedKeys == {"title", "description", "color", "timestamp"}

\* formatter.format(record) / Handler.format(record)
Format(r) ==
    CASE r.out = "text" -> StrVal(<<r.id>>, r.id)
      [] r.out = "empty" -> StrVal(<<>>, r.id)
      [] r.out = "wrapped" -> DictVal({"embeds"}, <<>>, EmbedKeys, r.id)
      [] OTHER -> DictVal(EmbedKeys, <<>>, {}, r.id)

\* formatter.format_batch(records) == [self.format(record) for record in records]
format_batch(records) == [i \in 1..Len(records) |-> Format(records[i])]

required_fields ==
    {"title", "description", "url", "timestamp", "color", "footer", "image",
     "thumbnail", "video", "provider", "author", "fields"}

_is_valid_embed(embed) == embed.type = "dict" /\ embed.keys \cap required_fields # {}

\* ------------------------------------------------------------ _flush, pure
\* lines 692-702: the batch path keeps the valid embeds of format_batch(buffer)
BatchContent(buf) == SelectSeq(format_batch(buf), _is_valid_embed)

\* lines 706-722: the per-record path; a str becomes {"content": str}, a dict
\* with "embeds" contributes its first embed when that one is valid
RECURSIVE PerRecordContent(_)
PerRecordContent(buf) ==
    IF buf = <<>> THEN <<>>
    ELSE LET m == Format(Head(buf))
             rest == PerRecordContent(Tail(buf))
         IN IF m.type = "str"
              THEN <<DictVal({"content"}, m.text, {}, m.id)>> \o rest
            ELSE IF m.type = "dict" /\ "embeds" \in m.keys
              THEN LET embed == DictVal(m.inner, <<>>, {}, m.id)
                   IN IF _is_valid_embed(embed) THEN <<embed>> \o rest ELSE rest
            ELSE rest

\* A flush that formats the first buffered record only
payload_content_first_only(buf) ==
    IF has_format_batch THEN BatchContent(SubSeq(buf, 1, 1)) ELSE PerRecordContent(SubSeq(buf, 1, 1))

\* lines 691-722
payload_content(buf) ==
    IF has_format_batch THEN BatchContent(buf) ELSE PerRecordContent(buf)

\* A join that keeps the first part only
JoinLinesFirstOnly(parts) == IF parts = <<>> THEN <<>> ELSE parts[1]

\* "\n".join(parts)
RECURSIVE JoinLines(_)
JoinLines(parts) ==
    IF parts = <<>> THEN <<>>
    ELSE IF Len(parts) = 1 THEN parts[1]
    ELSE parts[1] \o <<NL>> \o JoinLines(Tail(parts))

HasContentKey(item) == "content" \in item.keys

TextOf(items) == [i \in 1..Len(items) |-> items[i].text]

\* lines 725-743: the payload dict made of a non-empty payload_content
BuildPayload(items) ==
    LET embeds == SelectSeq(items, _is_valid_embed)
        content == JoinLines(TextOf(SelectSeq(items, HasContentKey)))
    IN [keys |-> (IF embeds # <<>> THEN {"embeds"} ELSE {})
                   \cup (IF content # <<>> THEN {"content"} ELSE {}),
        embeds |-> embeds,
        content |-> content]

NoPayload == [keys |-> {}, embeds |-> <<>>, content |-> <<>>]

\* ------------------------------------------------------------------- tasks
\* One _flush() coroutine: st is its position, trigger what scheduled it,
\* buf0 the buffer it found, payload the request it made, resp_at the time
\* the request was answered 204.
NewTask(trigger) ==
    [st |-> "pending", trigger |-> trigger, buf0 |-> <<>>, payload |-> NoPayload,
     resp_at |-> 0]

Responses == {"204", "non204", "transport", "timeout"}

RemoveAt(s, i) == [j \in 1..(Len(s) - 1) |-> IF j < i THEN s[j] ELSE s[j + 1]]

\* A capacity test that is off by one: > for >=
should_flush_strict(record, buf) == record.is_urgent \/ Len(buf) > capacity

\* A predicate that forgets the urgent marker
should_flush_capacity_only(record, buf) == Len(buf) >= capacity

\* lines 766-775; buf is self.buffer, the record already appended
should_flush(record, buf) == record.is_urgent \/ Len(buf) >= capacity

\* line 792
throttle_elapsed == now - last_sent_time >= throttle_limit

\* -------------------------------------------------------------------- Init
\* lines 528-550: the state __init__ leaves
InitState ==
    /\ buffer = <<>>
    /\ last_sent_time = 0
    /\ rlock_count = 0
    /\ tasks = <<>>
    /\ flush_task = "created"
    /\ wake_at = 0
    /\ close_st = "open"
    /\ pc = [t \in Threads |-> "idle"]
    /\ created = 0
    /\ scheduled = 0
    /\ requests = 0
    /\ close_future = "none"
    /\ last_soft_send = -1
    /\ now = 0
    /\ close_created = -1

\* The constructor has returned, having found the loop already running
\* (line 553), so that no validation was scheduled.
Constructed ==
    /\ ctor_st = "returned"
    /\ loop_running = TRUE
    /\ validation = "none"
    /\ proxy = "none"

\* No file in the directory, no file handler at work
Absent == [gen |-> 0, n |-> 0, mtime |-> 0]

NoRotation ==
    /\ backup_count = 0
    /\ backup_extension_type = "count"
    /\ max_bytes = 0
    /\ interval = 1
    /\ stream = "none"
    /\ live = Absent
    /\ numbered = [index \in 1..(MaxBackups + 1) |-> Absent]
    /\ stamped = {}
    /\ rollover_at = 0
    /\ rnow = 0
    /\ rotated = <<>>
    /\ failed = 0
    /\ opened = 0
    /\ emitted = 0
    /\ emit_res = "none"

\* No thread is inside the file handler
NoThreads ==
    /\ holder = "none"
    /\ tcall = [t \in Threads |-> "none"]
    /\ tstep = [t \in Threads |-> "idle"]
    /\ calls = 0

\* No rotation policy is being evaluated
Never == [wall |-> -1, fold |-> 0, aware |-> FALSE]

NoPolicy ==
    /\ when = "MIDNIGHT"
    /\ at_time = -1
    /\ clock = 0
    /\ dst = FALSE
    /\ current = Never
    /\ next_rollover = -1

\* The arguments a memoized function is called with, and their cache keys:
\* the key is the tuple of the arguments, and the float 1.0 is equal to the
\* int 1 and has its hash
ArgPool == {"1", "1.0", "2", "3"}

KeyOf(arg) == IF arg = "1.0" THEN "1" ELSE arg

Keys == {KeyOf(arg) : arg \in ArgPool}

\* No memoized function is in use
NoMemo ==
    /\ max_cache_size = 0
    /\ eviction_policy = "LRU"
    /\ fast = FALSE
    /\ cache = <<>>
    /\ last_use = [key \in Keys |-> 0]
    /\ mcalls = 0
    /\ computed = 0
    /\ last_args = "1"
    /\ returned = "none"

\* Nothing but the webhook dispatcher and the file handler is at work
NoOthers == NoThreads /\ NoPolicy /\ NoMemo

Init ==
    /\ Constructed
    /\ NoRotation
    /\ NoOthers
    /\ capacity \in 1..MaxCapacity
    /\ flush_interval \in 1..MaxPeriod
    /\ throttle_limit \in 1..MaxPeriod
    /\ flush_on_close \in BOOLEAN
    /\ has_format_batch \in BOOLEAN
    /\ InitState

\* ----------------------------------------------------------------- actions
\* asyncio.run_coroutine_threadsafe(self._flush(), self.loop)
Schedule(trigger) ==
    /\ scheduled < MaxFlushes
    /\ scheduled' = scheduled + 1
    /\ tasks' = Append(tasks, NewTask(trigger))

\* Threads that are inside emit(), before the lock
InEmit == {t \in Threads : pc[t] = "emit"}

\* An application thread enters emit(record) and reaches the lock. At most
\* limit records are emitted in one behaviour.
EmitCall(t, limit) ==
    /\ pc[t] = "idle"
    /\ created + Cardinality(InEmit) < limit
    /\ pc' = [pc EXCEPT ![t] = "emit"]
    /\ UNCHANGED <<config, buffer, last_sent_time, rlock_count, tasks, flush_task,
                   wake_at, close_st, created, scheduled, requests, close_future,
                   last_soft_send, now>>
    /\ UNCHANGED <<close_created, construction, rotation, others>>

\* line 786: the RLock is free for an application thread only when the loop
\* thread does not hold it
LockFree == rlock_count = 0

\* lines 786-794, the critical section of emit; the record is the created-th
\* one to be appended and is what the caller made it (tmpl)
EmitBody(t, tmpl) ==
    /\ pc[t] = "emit"
    /\ LockFree
    /\ LET record == [id |-> created + 1, is_urgent |-> tmpl.is_urgent, out |-> tmpl.out]
           buf == Append(buffer, record)
           forced == should_flush(record, buf)
       IN /\ buffer' = buf
          /\ IF forced \/ throttle_elapsed
               THEN Schedule(IF forced THEN "forced" ELSE "throttle")
               ELSE UNCHANGED <<tasks, scheduled>>
    /\ created' = created + 1
    /\ pc' = [pc EXCEPT ![t] = "idle"]
    /\ UNCHANGED <<config, last_sent_time, rlock_count, flush_task, wake_at,
                   close_st, requests, close_future, last_soft_send, now>>
    /\ UNCHANGED <<close_created, construction, rotation, others>>

\* The loop starts its ready coroutines in the order they were scheduled.
NextPending(i) ==
    /\ i \in 1..Len(tasks)
    /\ tasks[i].st = "pending"
    /\ \A j \in 1..(i - 1) : tasks[j].st # "pending"

\* The future of run_coroutine_threadsafe as the coroutine ends; close() holds
\* the one of its final flush.
SetFuture(task, outcome) ==
    IF task.trigger = "close" THEN close_future' = outcome ELSE UNCHANGED close_future

\* A flush without its two early returns
NothingToSendNever(buf) == FALSE

\* A flush that always returns early
NothingToSendAlways(buf) == TRUE

\* lines 685 and 725: the two places where _flush() returns without sending
NothingToSend(buf) == buf = <<>> \/ payload_content(buf) = <<>>

\* lines 683-746: _flush() from its start to the await of the send, or to its
\* return when there is nothing to send
FlushStart(i) ==
    /\ NextPending(i)
    /\ IF NothingToSend(buffer)
         THEN /\ tasks' = RemoveAt(tasks, i)
              /\ SetFuture(tasks[i], "result")
              /\ UNCHANGED <<rlock_count, requests, last_soft_send>>
         ELSE /\ tasks' = [tasks EXCEPT ![i].st = "sending", ![i].buf0 = buffer,
                                        ![i].payload = BuildPayload(payload_content(buffer))]
              /\ rlock_count' = rlock_count + 1
              /\ requests' = requests + 1
              /\ last_soft_send' = IF tasks[i].trigger \in {"periodic", "throttle"}
                                     THEN now ELSE last_soft_send
              /\ UNCHANGED close_future
    /\ UNCHANGED <<config, buffer, last_sent_time, flush_task, wake_at, close_st,
                   pc, created, scheduled, now>>
    /\ UNCHANGED <<close_created, construction, rotation, others>>

\* A flush that leaves the timestamp as it was
SentTimeStale(task) == last_sent_time

\* line 749
SentTime(task) == now

\* lines 618-644 and 746: the request of _send_logs_to_webhook is answered 204,
\* and the coroutine is made ready again; or it is answered otherwise, fails in
\* transport or times out, and the exception leaves _flush() through the with
\* block
NetRespond(i, resp) ==
    /\ i \in 1..Len(tasks)
    /\ tasks[i].st = "sending"
    /\ IF resp = "204"
         THEN /\ tasks' = [tasks EXCEPT ![i].st = "responded", ![i].resp_at = now]
              /\ UNCHANGED <<rlock_count, close_future>>
         ELSE /\ tasks' = RemoveAt(tasks, i)
              /\ rlock_count' = rlock_count - 1
              /\ SetFuture(tasks[i], "exception")
    /\ UNCHANGED <<config, buffer, last_sent_time, flush_task, wake_at,
                   close_st, pc, created, scheduled, requests,
                   last_soft_send, now>>
    /\ UNCHANGED <<close_created, construction, rotation, others>>

\* lines 748-752: _flush() resumes after the await of a successful send; the
\* with block ends
FlushResume(i) ==
    /\ i \in 1..Len(tasks)
    /\ tasks[i].st = "responded"
    /\ last_sent_time' = SentTime(tasks[i])
    /\ buffer' = <<>>
    /\ SetFuture(tasks[i], "result")
    /\ tasks' = RemoveAt(tasks, i)
    /\ rlock_count' = rlock_count - 1
    /\ UNCHANGED <<config, flush_task, wake_at, close_st, pc, created,
                   scheduled, requests, last_soft_send, now>>
    /\ UNCHANGED <<close_created, construction, rotation, others>>

\* A sleep that lasts one second too long
NextWakeLate == now + flush_interval + 1

\* line 763: await asyncio.sleep(self.flush_interval)
NextWake == now + flush_interval

\* line 550 / 762-763: the loop runs the first step of _periodic_flush()
PeriodicStart ==
    /\ flush_task = "created"
    /\ flush_task' = "sleeping"
    /\ wake_at' = NextWake
    /\ UNCHANGED <<config, buffer, last_sent_time, rlock_count, tasks, close_st,
                   pc, created, scheduled, requests, close_future,
                   last_soft_send, now>>
    /\ UNCHANGED <<close_created, construction, rotation, others>>

\* lines 762-764: the sleep is over, a flush is scheduled, the task sleeps again
PeriodicWake ==
    /\ flush_task = "sleeping"
    /\ now >= wake_at
    /\ Schedule("periodic")
    /\ wake_at' = NextWake
    /\ UNCHANGED <<config, buffer, last_sent_time, rlock_count, flush_task, close_st,
                   pc, created, requests, close_future, last_soft_send, now>>
    /\ UNCHANGED <<close_created, construction, rotation, others>>

\* lines 808-809
CancelFlushTask == "cancelled"

\* lines 803-809: close() schedules the final flush and waits for its result,
\* or goes on to cancel the periodic task
CloseCall ==
    /\ close_st = "open"
    /\ IF flush_on_close
         THEN /\ Schedule("close")
              /\ close_st' = "waiting"
              /\ close_future' = "pending"
              /\ UNCHANGED <<flush_task, wake_at, close_created>>
         ELSE /\ flush_task' = CancelFlushTask
              /\ wake_at' = 0
              /\ close_st' = "returned"
              /\ close_created' = created
              /\ UNCHANGED <<tasks, scheduled, close_future>>
    /\ UNCHANGED <<config, buffer, last_sent_time, rlock_count, pc,
                   created, requests, last_soft_send, now>>
    /\ UNCHANGED <<construction, rotation, others>>

\* lines 804-810: .result() returns, or raises what the final flush raised
CloseResume ==
    /\ close_st = "waiting"
    /\ close_future \in {"result", "exception"}
    /\ IF close_future = "exception"
         THEN /\ close_st' = "raised"
              /\ UNCHANGED <<flush_task, wake_at>>
         ELSE /\ close_st' = "returned"
              /\ flush_task' = CancelFlushTask
              /\ wake_at' = 0
    /\ UNCHANGED <<config, buffer, last_sent_time, rlock_count, tasks, pc, created, scheduled, requests, close_future, last_soft_send, now>>
    /\ UNCHANGED <<close_created, construction, rotation, others>>

Tick ==
    /\ now < MaxTime
    /\ now' = now + 1
    /\ UNCHANGED <<config, buffer, last_sent_time, rlock_count, tasks, flush_task,
                   wake_at, close_st, pc, created, scheduled, requests,
                   close_future, last_soft_send>>
    /\ UNCHANGED <<close_created, construction, rotation, others>>

Next ==
    \/ \E t \in Threads : EmitCall(t, MaxEmits)
    \/ \E t \in Threads, tmpl \in RecordPool : EmitBody(t, tmpl)
    \/ \E i \in 1..MaxFlushes : FlushStart(i)
    \/ \E i \in 1..MaxFlushes, resp \in Responses : NetRespond(i, resp)
    \/ \E i \in 1..MaxFlushes : FlushResume(i)
    \/ PeriodicStart
    \/ PeriodicWake
    \/ CloseCall
    \/ CloseResume
    \/ Tick

Spec == Init /\ [][Next]_vars

\* -------------------------------------------------------------- scenario B
\* The dispatcher of the end-to-end scenario: capacity=5, throttle_limit=1.0,
\* the handler's own text formatting, an endpoint that accepts every request,
\* records without the urgent marker.
ScenarioPool == {[is_urgent |-> FALSE, out |-> o] : o \in {"text", "wrapped"}}

InitB ==
    /\ Constructed
    /\ NoRotation
    /\ NoOthers
    /\ capacity = 5
    /\ throttle_limit = 1
    /\ flush_interval \in 1..MaxPeriod
    /\ flush_on_close = FALSE
    /\ has_format_batch = FALSE
    /\ InitState

NextB ==
    \/ \E t \in Threads : EmitCall(t, 5)
    \/ \E t \in Threads, tmpl \in ScenarioPool : EmitBody(t, tmpl)
    \/ \E i \in 1..MaxFlushes : FlushStart(i)
    \/ \E i \in 1..MaxFlushes : NetRespond(i, "204")
    \/ \E i \in 1..MaxFlushes : FlushResume(i)
    \/ PeriodicStart
    \/ PeriodicWake
    \/ Tick

SpecB == InitB /\ [][NextB]_vars

\* ------------------------------------------------------------ file handler
\* DualRotatingHandler. A file is [gen, n, mtime]: gen tells the files ever
\* created at self.baseFilename apart, n is its size in formatted records,
\* mtime the time of its last write. The directory holds the live file, the
\* numbered backups and the files whose names match timestamp_pattern, those
\* of this handler (owner "self") and others. os.rename replaces an existing
\* destination (POSIX). Here each call of emit() and do_rollover() is one
\* step, the calls being made by one thread; SpecT below has the steps of
\* calls made by several.
Exists(file) == file.gen # 0

\* The file that open() creates when op files have been created before
NewFile(op) == [gen |-> op + 1, n |-> 0, mtime |-> rnow]

\* A timestamped file of another handler that logs into the same directory
Foreign == [owner |-> "other", stamp |-> 0, gen |-> -1, n |-> 1, mtime |-> 0]

\* lines 298-303: the backup name made of the current time
Stamped(file) ==
    [owner |-> "self", stamp |-> rnow, gen |-> file.gen, n |-> file.n, mtime |-> file.mtime]

\* lines 210-214, for a fixed unit: the next rollover is interval units later
compute_rollover(current_time) == current_time + interval

\* A check that asks for both conditions
should_rollover_both(file) ==
    /\ max_bytes > 0 /\ file.n >= max_bytes
    /\ rnow >= rollover_at

\* lines 263-277; the record is created at the time of the emit
should_rollover(file) ==
    \/ max_bytes > 0 /\ file.n >= max_bytes
    \/ rnow >= rollover_at

\* A rollover in progress: the files, the number c of filesystem calls it has
\* made, and whether the last one raised. The f-th call raises.
Progress(lv, num, st, c, err) ==
    [live |-> lv, numbered |-> num, stamped |-> st, c |-> c, err |-> err]

\* lines 314-324: the files <base>.index for index = backup_count - 1 down to
\* 1 are renamed to <base>.(index + 1), an existing destination being removed
\* first
RECURSIVE ShiftBackups(_, _, _)
ShiftBackups(index, p, f) ==
    IF index < 1 \/ p.err THEN p
    ELSE IF ~Exists(p.numbered[index]) THEN ShiftBackups(index - 1, p, f)
    ELSE LET removed ==
                 IF ~Exists(p.numbered[index + 1]) THEN p
                 ELSE IF p.c + 1 = f THEN [p EXCEPT !.c = @ + 1, !.err = TRUE]
                 ELSE [p EXCEPT !.c = @ + 1, !.numbered[index + 1] = Absent]
             renamed ==
                 IF removed.err THEN removed
                 ELSE IF removed.c + 1 = f THEN [removed EXCEPT !.c = @ + 1, !.err = TRUE]
                 ELSE [removed EXCEPT !.c = @ + 1,
                                      !.numbered[index + 1] = p.numbered[index],
                                      !.numbered[index] = Absent]
         IN ShiftBackups(index - 1, renamed, f)

\* A rollover that leaves the numbered backups where they are
NumericRolloverNoShift(p, f) ==
    IF ~Exists(p.live) THEN p
    ELSE IF p.c + 1 = f THEN [p EXCEPT !.c = @ + 1, !.err = TRUE]
    ELSE [p EXCEPT !.c = @ + 1, !.numbered[1] = p.live, !.live = Absent]

\* lines 312-328
NumericRollover(p, f) ==
    LET shifted == ShiftBackups(backup_count - 1, p, f)
    IN IF shifted.err \/ ~Exists(shifted.live) THEN shifted
       ELSE IF shifted.c + 1 = f THEN [shifted EXCEPT !.c = @ + 1, !.err = TRUE]
       ELSE [shifted EXCEPT !.c = @ + 1, !.numbered[1] = shifted.live, !.live = Absent]

\* The r entries a cleanup keeps longest
NewestSets(entries, r) ==
    {R \in SUBSET entries :
        Cardinality(R) = r /\ \A x \in R, y \in entries \ R : x.mtime >= y.mtime}

\* line 350 and 356-360: the first r entries of the list sorted by
\* modification time; entries of equal time are in the order of os.listdir,
\* which is any
OldestSets(entries, r) ==
    {R \in SUBSET entries :
        Cardinality(R) = r /\ \A x \in R, y \in entries \ R : x.mtime <= y.mtime}

\* lines 331-364: the outcomes of the timestamp branch. The scan of the
\* directory is one call; the entry of the new backup, dated now, is the last
\* of the sorted list, and removing it raises as the file does not exist yet.
TimeRollover(p, f) ==
    LET n == Cardinality(p.stamped)
        excess == n + 1 - backup_count
        wanted == IF excess < 0 THEN 0 ELSE excess
        old == IF wanted > n THEN n ELSE wanted
        c1 == p.c + 1
    IN IF c1 = f THEN {[p EXCEPT !.c = c1, !.err = TRUE]}
       ELSE IF f - c1 \in 1..old
         THEN {[p EXCEPT !.c = f, !.err = TRUE, !.stamped = p.stamped \ R] :
                   R \in OldestSets(p.stamped, f - c1 - 1)}
       ELSE IF wanted > n
         THEN {[p EXCEPT !.c = c1 + n + 1, !.err = TRUE, !.stamped = {}]}
       ELSE {LET rest == p.stamped \ R
                 c2 == c1 + old
             IN IF ~Exists(p.live) THEN [p EXCEPT !.c = c2, !.stamped = rest]
                ELSE IF c2 + 1 = f THEN [p EXCEPT !.c = c2 + 1, !.err = TRUE, !.stamped = rest]
                ELSE [p EXCEPT !.c = c2 + 1,
                               !.live = Absent,
                               !.stamped = {x \in rest : ~(x.owner = "self" /\ x.stamp = rnow)}
                                               \cup {Stamped(p.live)}] :
                 R \in OldestSets(p.stamped, old)}

\* A rollover that keeps the stream it had
StreamResetSkipped(s) == s

\* line 292: self.stream = None
StreamReset(s) == "none"

\* The result of a do_rollover() call: the handler and the directory after
\* it, the number op of files created so far, and whether it returned (ok)
\* or raised
Result(str, p, op, ok) ==
    [stream |-> str, live |-> p.live, numbered |-> p.numbered, stamped |-> p.stamped,
     opened |-> op,
     rollover_at |-> IF ok THEN compute_rollover(rnow) ELSE rollover_at,
     ok |-> ok]

\* lines 366-376: the new file is opened (and created, mode "a"), the next
\* rollover is scheduled; or the exception of a failed call is raised
Reopen(str, p, op, f) ==
    IF p.err \/ p.c + 1 = f THEN Result(StreamReset(str), p, op, FALSE)
    ELSE IF Exists(p.live) THEN Result("open", p, op, TRUE)
    ELSE Result("open", [p EXCEPT !.live = NewFile(op)], op + 1, TRUE)

\* lines 286-376: the outcomes of do_rollover() when its f-th filesystem call
\* raises (none when f is 0 or beyond the calls made), for a handler with
\* stream str, live file lv and op files created so far. Closing the open
\* stream is the first call; when it raises, the file object is closed and
\* self.stream still refers to it.
do_rollover(str, lv, op, f) ==
    LET start == Progress(lv, numbered, stamped, IF str = "open" THEN 1 ELSE 0, FALSE)
    IN IF str = "open" /\ f = 1 THEN {Result("closed", start, op, FALSE)}
       ELSE IF backup_extension_type # "time"
         THEN {Reopen(str, NumericRollover(start, f), op, f)}
       ELSE {Reopen(str, p, op, f) : p \in TimeRollover(start, f)}

\* The handler and the directory become what result says
Becomes(result) ==
    /\ stream' = result.stream
    /\ live' = result.live
    /\ numbered' = result.numbered
    /\ stamped' = result.stamped
    /\ opened' = result.opened
    /\ rollover_at' = result.rollover_at

\* The webhook dispatcher is not in use
NoDispatcher ==
    /\ Constructed
    /\ InitState
    /\ capacity = 1
    /\ flush_interval = 1
    /\ throttle_limit = 1
    /\ flush_on_close = FALSE
    /\ has_format_batch = FALSE

\* lines 78-105: the handler after construction with delay=False and mode "a":
\* a new empty log file is open, no backup of it exists
InitR ==
    /\ NoDispatcher
    /\ NoOthers
    /\ backup_count \in 0..MaxBackups
    /\ backup_extension_type \in {"count", "time"}
    /\ max_bytes \in 0..MaxBytes
    /\ interval \in 1..MaxInterval
    /\ stream = "open"
    /\ live = [gen |-> 1, n |-> 0, mtime |-> 0]
    /\ numbered = [index \in 1..(MaxBackups + 1) |-> Absent]
    /\ stamped \in {{}, {Foreign}}
    /\ rollover_at = compute_rollover(0)
    /\ rnow = 0
    /\ rotated = <<>>
    /\ failed = 0
    /\ opened = 1
    /\ emitted = 0
    /\ emit_res = "none"

RolloverBudget == Len(rotated) + failed < MaxRollovers

\* do_rollover() called on its own
DoRollover(f) ==
    /\ RolloverBudget
    /\ \E result \in do_rollover(stream, live, opened, f) :
          /\ Becomes(result)
          /\ rotated' = IF result.ok THEN Append(rotated, live) ELSE rotated
          /\ failed' = IF result.ok THEN failed ELSE failed + 1
    /\ UNCHANGED <<backup_count, backup_extension_type, max_bytes, interval, rnow,
                   emitted, emit_res, dispatcher, construction, others>>

\* line 399: the formatted record and the terminator are appended
Write(file) == [gen |-> file.gen, n |-> file.n + 1, mtime |-> rnow]

\* lines 389-406: emit(record). should_rollover() opens the stream when there
\* is none (creating the file when there is none); a closed stream raises
\* when its size is asked for or when it is written to; a rollover that
\* raises ends the call before the write.
REmit(f) ==
    /\ emitted < MaxREmits
    /\ emitted' = emitted + 1
    /\ LET create == stream = "none" /\ ~Exists(live)
           file == IF create THEN NewFile(opened) ELSE live
           op == IF create THEN opened + 1 ELSE opened
           str == IF stream = "none" THEN "open" ELSE stream
       IN IF str = "closed" /\ max_bytes > 0
            THEN /\ emit_res' = "raised"
                 /\ UNCHANGED <<stream, live, numbered, stamped, opened, rollover_at,
                                rotated, failed>>
          ELSE IF should_rollover(file)
            THEN /\ RolloverBudget
                 /\ \E result \in do_rollover(str, file, op, f) :
                       /\ rotated' = IF result.ok THEN Append(rotated, file) ELSE rotated
                       /\ failed' = IF result.ok THEN failed ELSE failed + 1
                       /\ IF result.ok
                            THEN /\ Becomes([result EXCEPT !.live = Write(@)])
                                 /\ emit_res' = "returned"
                            ELSE /\ Becomes(result)
                                 /\ emit_res' = "rollover raised"
          ELSE IF str = "closed"
            THEN /\ emit_res' = "raised"
                 /\ UNCHANGED <<stream, live, numbered, stamped, opened, rollover_at,
                                rotated, failed>>
          ELSE /\ stream' = str
               /\ live' = Write(file)
               /\ opened' = op
               /\ emit_res' = "returned"
               /\ UNCHANGED <<numbered, stamped, rollover_at, rotated, failed>>
    /\ UNCHANGED <<backup_count, backup_extension_type, max_bytes, interval, rnow,
                   dispatcher, construction, others>>

RTick ==
    /\ rnow < MaxRTime
    /\ rnow' = rnow + 1
    /\ UNCHANGED <<backup_count, backup_extension_type, max_bytes, interval, stream,
                   live, numbered, stamped, rollover_at, rotated, failed, opened,
                   emitted, emit_res, dispatcher, construction, others>>

NextR ==
    \/ \E f \in 0..MaxFail : DoRollover(f)
    \/ \E f \in 0..MaxFail : REmit(f)
    \/ RTick

SpecR == InitR /\ [][NextR]_vars

\* The handler as the logging framework drives it: do_rollover() is called by
\* emit() only
NextE ==
    \/ \E f \in 0..MaxFail : REmit(f)
    \/ RTick

SpecE == InitR /\ [][NextE]_vars

\* --------------------------------------------------- file handler, threads
\* Threads call emit() and do_rollover() of one DualRotatingHandler. A step
\* is one statement that touches the lock, the stream or the directory; no
\* filesystem call fails here. self.reentrant_lock is acquired by emit() at
\* line 389 and by do_rollover() at line 309, after its lines 288-292.
InitT ==
    /\ NoDispatcher
    /\ NoThreads
    /\ NoPolicy
    /\ NoMemo
    /\ backup_count \in 0..MaxBackups
    /\ backup_extension_type \in {"count", "time"}
    /\ max_bytes \in 0..MaxBytes
    /\ interval \in 1..MaxInterval
    /\ stream = "open"
    /\ live = [gen |-> 1, n |-> 0, mtime |-> 0]
    /\ numbered = [index \in 1..(MaxBackups + 1) |-> Absent]
    /\ stamped = {}
    /\ rollover_at = compute_rollover(0)
    /\ rnow = 0
    /\ rotated = <<>>
    /\ failed = 0
    /\ opened = 1
    /\ emitted = 0
    /\ emit_res = "none"

\* The call of thread t ends (returns or raises): the with block of the
\* outermost call releases the lock if the thread holds it
Leave(t) ==
    /\ tcall' = [tcall EXCEPT ![t] = "none"]
    /\ tstep' = [tstep EXCEPT ![t] = "idle"]
    /\ holder' = IF holder = t THEN "none" ELSE holder

Goto(t, step) ==
    /\ tstep' = [tstep EXCEPT ![t] = step]
    /\ UNCHANGED <<holder, tcall>>

\* A thread calls emit(record) or do_rollover()
TCall(t, method) ==
    /\ tcall[t] = "none"
    /\ calls < MaxCalls
    /\ calls' = calls + 1
    /\ tcall' = [tcall EXCEPT ![t] = method]
    /\ tstep' = [tstep EXCEPT ![t] = IF method = "emit" THEN "lock" ELSE "close"]
    /\ emitted' = IF method = "emit" THEN emitted + 1 ELSE emitted
    /\ UNCHANGED <<holder, backup_count, backup_extension_type, max_bytes, interval,
                   stream, live, numbered, stamped, rollover_at, rnow, rotated, failed,
                   opened, emit_res, dispatcher, construction, policy, memo>>

\* line 389 (emit) and line 309 (do_rollover): with self.reentrant_lock
TAcquire(t) ==
    /\ tstep[t] \in {"lock", "relock"}
    /\ holder \in {"none", t}
    /\ holder' = t
    /\ tstep' = [tstep EXCEPT ![t] = IF tstep[t] = "lock" THEN "check" ELSE "files"]
    /\ UNCHANGED <<tcall, calls, rotation, dispatcher, construction, policy, memo>>

\* line 392, lines 263-277: should_rollover(record) opens the stream when
\* there is none; asking a closed stream for its size raises
TCheck(t) ==
    /\ tstep[t] = "check"
    /\ LET create == stream = "none" /\ ~Exists(live)
           file == IF create THEN NewFile(opened) ELSE live
           str == IF stream = "none" THEN "open" ELSE stream
       IN IF str = "closed" /\ max_bytes > 0
            THEN /\ Leave(t)
                 /\ emit_res' = "raised"
                 /\ UNCHANGED <<stream, live, opened>>
          ELSE /\ stream' = str
               /\ live' = file
               /\ opened' = IF create THEN opened + 1 ELSE opened
               /\ Goto(t, IF should_rollover(file) THEN "close" ELSE "write")
               /\ UNCHANGED emit_res
    /\ UNCHANGED <<calls, backup_count, backup_extension_type, max_bytes, interval,
                   numbered, stamped, rollover_at, rnow, rotated, failed, emitted,
                   dispatcher, construction, policy, memo>>

\* lines 288-289: the stream, if any, is closed
TClose(t) ==
    /\ tstep[t] = "close"
    /\ stream' = IF stream = "none" THEN "none" ELSE "closed"
    /\ Goto(t, "reset")
    /\ UNCHANGED <<calls, backup_count, backup_extension_type, max_bytes, interval,
                   live, numbered, stamped, rollover_at, rnow, rotated, failed, opened,
                   emitted, emit_res, dispatcher, construction, policy, memo>>

\* line 292
TReset(t) ==
    /\ tstep[t] = "reset"
    /\ stream' = StreamReset(stream)
    /\ Goto(t, "relock")
    /\ UNCHANGED <<calls, backup_count, backup_extension_type, max_bytes, interval,
                   live, numbered, stamped, rollover_at, rnow, rotated, failed, opened,
                   emitted, emit_res, dispatcher, construction, policy, memo>>

\* lines 312-364: the backups are shifted or cleaned up and the live file is
\* renamed; rotated records the file rotated out. The cleanup of the
\* timestamp branch raises when backup_count is 0.
TFiles(t) ==
    /\ tstep[t] = "files"
    /\ holder = t
    /\ LET start == Progress(live, numbered, stamped, 0, FALSE)
       IN \E p \in IF backup_extension_type # "time" THEN {NumericRollover(start, 0)}
                   ELSE TimeRollover(start, 0) :
             /\ live' = p.live
             /\ numbered' = p.numbered
             /\ stamped' = p.stamped
             /\ IF p.err
                  THEN /\ Leave(t)
                       /\ failed' = failed + 1
                       /\ emit_res' = IF tcall[t] = "emit" THEN "rollover raised" ELSE emit_res
                       /\ UNCHANGED rotated
                  ELSE /\ Goto(t, "open")
                       /\ rotated' = Append(rotated, live)
                       /\ UNCHANGED <<failed, emit_res>>
    /\ UNCHANGED <<calls, backup_count, backup_extension_type, max_bytes, interval,
                   stream, rollover_at, rnow, opened, emitted, dispatcher, construction, policy, memo>>

\* lines 367-370: the new file is opened and the next rollover is scheduled;
\* do_rollover() returns, to emit() or to the caller
TOpen(t) ==
    /\ tstep[t] = "open"
    /\ holder = t
    /\ stream' = "open"
    /\ live' = IF Exists(live) THEN live ELSE NewFile(opened)
    /\ opened' = IF Exists(live) THEN opened ELSE opened + 1
    /\ rollover_at' = compute_rollover(rnow)
    /\ IF tcall[t] = "emit" THEN Goto(t, "write") ELSE Leave(t)
    /\ UNCHANGED <<calls, backup_count, backup_extension_type, max_bytes, interval,
                   numbered, stamped, rnow, rotated, failed, emitted, emit_res,
                   dispatcher, construction, policy, memo>>

\* lines 396-406: the record is written to self.stream; a stream that is
\* closed or None raises; emit() ends
TWrite(t) ==
    /\ tstep[t] = "write"
    /\ holder = t
    /\ IF stream = "open"
         THEN /\ live' = Write(live)
              /\ emit_res' = "returned"
         ELSE /\ emit_res' = "raised"
              /\ UNCHANGED live
    /\ Leave(t)
    /\ UNCHANGED <<calls, backup_count, backup_extension_type, max_bytes, interval,
                   stream, numbered, stamped, rollover_at, rnow, rotated, failed, opened,
                   emitted, dispatcher, construction, policy, memo>>

TTick ==
    /\ rnow < MaxRTime
    /\ rnow' = rnow + 1
    /\ UNCHANGED <<backup_count, backup_extension_type, max_bytes, interval, stream,
                   live, numbered, stamped, rollover_at, rotated, failed, opened,
                   emitted, emit_res, dispatcher, construction, threads, policy, memo>>

NextT ==
    \/ \E t \in Threads, method \in {"emit", "do_rollover"} : TCall(t, method)
    \/ \E t \in Threads : TAcquire(t)
    \/ \E t \in Threads : TCheck(t)
    \/ \E t \in Threads : TClose(t)
    \/ \E t \in Threads : TReset(t)
    \/ \E t \in Threads : TFiles(t)
    \/ \E t \in Threads : TOpen(t)
    \/ \E t \in Threads : TWrite(t)
    \/ TTick

SpecT == InitT /\ [][NextT]_vars

\* --------------------------------------------------------- rotation policy
\* compute_rollover(current_time), lines 183-253. A datetime is [wall, fold,
\* aware]: wall counts the seconds of its date and time fields from Monday
\* 00:00:00 of a week, fold is the attribute of that name, aware tells a UTC
\* datetime from a naive one. Microseconds are left out. The constructor
\* passes datetime.now(timezone.utc) (line 105), do_rollover() passes the
\* naive local datetime.now() (line 370).
Minute == 60
Hour == 3600
Day == 86400

\* line 47
Whens == {"S", "M", "H", "D", "MIDNIGHT", "W0", "W1", "W2", "W3", "W4", "W5", "W6"}

\* lines 96-102: the timedelta of one unit
time_units == ("S" :> 1) @@ ("M" :> Minute) @@ ("H" :> Hour) @@ ("D" :> Day)

\* lines 145-149: int(self.when[1])
day_of_week ==
    ("W0" :> 0) @@ ("W1" :> 1) @@ ("W2" :> 2) @@ ("W3" :> 3) @@ ("W4" :> 4) @@
    ("W5" :> 5) @@ ("W6" :> 6)

\* The local zone with dst leaves summer time on the Sunday of the first
\* week: when its clocks reach 02:00:00 they are set back to 01:00:00. Local
\* time is UTC + 1 h before the instant FallBack and UTC from it on; without
\* dst it is UTC.
FallBack == 6 * Day + Hour

\* datetime.now(): the naive local datetime of instant ts; fold is 1 in the
\* second pass through the repeated hour
LocalNow(ts) ==
    IF ~dst THEN [wall |-> ts, fold |-> 0, aware |-> FALSE]
    ELSE IF ts < FallBack THEN [wall |-> ts + Hour, fold |-> 0, aware |-> FALSE]
    ELSE [wall |-> ts, fold |-> IF ts < FallBack + Hour THEN 1 ELSE 0, aware |-> FALSE]

\* datetime.now(timezone.utc)
UtcNow(ts) == [wall |-> ts, fold |-> 0, aware |-> TRUE]

\* datetime.timestamp(): a naive datetime is taken as local time, fold
\* choosing between the two instants of a repeated wall time
Timestamp(d) ==
    IF d.aware \/ ~dst THEN d.wall
    ELSE IF d.wall < FallBack THEN d.wall - Hour
    ELSE IF d.wall < FallBack + Hour THEN (IF d.fold = 0 THEN d.wall - Hour ELSE d.wall)
    ELSE d.wall

\* datetime + timedelta: arithmetic on the fields; the result has fold 0
Plus(d, seconds) == [wall |-> d.wall + seconds, fold |-> 0, aware |-> d.aware]

\* datetime.replace(hour, minute, second): the date is kept, fold is kept
Replace(d, seconds_of_day) == [d EXCEPT !.wall = (d.wall \div Day) * Day + seconds_of_day]

\* datetime.weekday(), 0 being Monday
Weekday(d) == (d.wall \div Day) % 7

\* lines 221-225
DaysToGo(w, d) ==
    LET days_to_go == (day_of_week[w] - Weekday(d) + 7) % 7
    IN IF days_to_go = 0 THEN 7 ELSE days_to_go

\* lines 192-253, for a policy that passed _validate_parameters()
ComputeRollover(w, every, at, d) ==
    IF w = "MIDNIGHT"
      THEN LET rollover_time == Replace(Plus(d, Day), 0)
           IN Timestamp(IF at >= 0 THEN Replace(rollover_time, at) ELSE rollover_time)
    ELSE IF w \in DOMAIN time_units
      THEN Timestamp(Plus(d, every * time_units[w]))
    ELSE LET next == Plus(d, DaysToGo(w, d) * Day)
         IN Timestamp(Replace(next, IF at >= 0 THEN at ELSE 0))

\* The times of day of the calls and of the at_time anchors
TimesOfDay == {0, 1, Hour, Hour + 30 * Minute, 2 * Hour - 1, 2 * Hour, 12 * Hour, Day - 1}

AtTimes == {-1, 0, 6 * Hour, 23 * Hour}

InitP ==
    /\ NoDispatcher
    /\ NoThreads
    /\ NoMemo
    /\ backup_count = 0
    /\ backup_extension_type = "count"
    /\ max_bytes = 0
    /\ interval \in 1..MaxEvery
    /\ stream = "open"
    /\ live = [gen |-> 1, n |-> 0, mtime |-> 0]
    /\ numbered = [index \in 1..(MaxBackups + 1) |-> Absent]
    /\ stamped = {}
    /\ rollover_at = 0
    /\ rnow = 0
    /\ rotated = <<>>
    /\ failed = 0
    /\ opened = 1
    /\ emitted = 0
    /\ emit_res = "none"
    /\ when \in Whens
    /\ at_time \in AtTimes
    /\ clock \in {day * Day + time : day \in 0..MaxDay, time \in TimesOfDay}
    /\ dst \in BOOLEAN
    /\ current = Never
    /\ next_rollover = -1

\* line 105: self.compute_rollover(dt.datetime.now(dt.timezone.utc))
ComputeAtInit ==
    /\ current = Never
    /\ current' = UtcNow(clock)
    /\ next_rollover' = ComputeRollover(when, interval, at_time, UtcNow(clock))
    /\ UNCHANGED <<when, at_time, clock, dst, dispatcher, construction, rotation, threads, memo>>

\* line 370: self.compute_rollover(dt.datetime.now())
ComputeAtRollover ==
    /\ current = Never
    /\ current' = LocalNow(clock)
    /\ next_rollover' = ComputeRollover(when, interval, at_time, LocalNow(clock))
    /\ UNCHANGED <<when, at_time, clock, dst, dispatcher, construction, rotation, threads, memo>>

NextP == ComputeAtInit \/ ComputeAtRollover

SpecP == InitP /\ [][NextP]_vars

\* ------------------------------------------------------------------ memoize
\* src/utilities/decorators.py, lines 219-361. The decorated function takes
\* one positional argument and is deterministic; its value tells its
\* arguments apart (as repr does). An entry of the cache is [key, value,
\* count], count being access_count[key] under LFU.
func(arg) == arg

\* lines 243-245
Capacity == IF max_cache_size < 0 THEN 0 ELSE max_cache_size

Position(entries, key) == CHOOSE i \in 1..Len(entries) : entries[i].key = key

Cached(key) == \E i \in 1..Len(cache) : cache[i].key = key

\* line 329: OrderedDict.move_to_end(key)
move_to_end(entries, key) ==
    LET i == Position(entries, key)
    IN Append(RemoveAt(entries, i), entries[i])

\* line 349: OrderedDict.popitem(last=False)
popitem(entries) == RemoveAt(entries, 1)

\* lines 352-355: the first of the keys with the smallest access count
lfu_evict(entries) ==
    LET least == CHOOSE i \in 1..Len(entries) :
                     \A j \in 1..Len(entries) :
                         \/ entries[j].count > entries[i].count
                         \/ entries[j].count = entries[i].count /\ j >= i
    IN RemoveAt(entries, least)

\* line 333: cache[key]
HitValue(entries, key) == entries[Position(entries, key)].value

InitM ==
    /\ NoDispatcher
    /\ NoRotation
    /\ NoThreads
    /\ NoPolicy
    /\ max_cache_size \in -1..MaxCacheSize
    /\ eviction_policy \in {"LRU", "LFU"}
    /\ fast \in BOOLEAN
    /\ cache = <<>>
    /\ last_use = [key \in Keys |-> 0]
    /\ mcalls = 0
    /\ computed = 0
    /\ last_args = "1"
    /\ returned = "none"

\* lines 291-357: wrapper(arg). The argument and the annotations are
\* hashable, so that with LRU and fast the wrapper returns what line 308
\* builds, the function wrapped by functools.lru_cache, without calling it.
Call(arg) ==
    /\ mcalls < MaxMemoCalls
    /\ mcalls' = mcalls + 1
    /\ last_args' = arg
    /\ LET key == KeyOf(arg)
       IN IF eviction_policy = "LRU" /\ fast
            THEN /\ returned' = "lru_cache wrapper"
                 /\ UNCHANGED <<cache, last_use, computed>>
          ELSE IF Cached(key)
            THEN /\ cache' = IF eviction_policy = "LRU" THEN move_to_end(cache, key)
                             ELSE [cache EXCEPT ![Position(cache, key)].count = @ + 1]
                 /\ returned' = HitValue(cache, key)
                 /\ last_use' = [last_use EXCEPT ![key] = mcalls + 1]
                 /\ UNCHANGED computed
          ELSE LET result == func(arg)
                   entry == [key |-> key, value |-> result,
                             count |-> IF eviction_policy = "LFU" THEN 1 ELSE 0]
                   stored == Append(cache, entry)
               IN /\ computed' = computed + 1
                  /\ cache' = IF Len(stored) <= Capacity THEN stored
                              ELSE IF eviction_policy = "LRU" THEN popitem(stored)
                              ELSE lfu_evict(stored)
                  /\ returned' = result
                  /\ last_use' = [last_use EXCEPT ![key] = mcalls + 1]
    /\ UNCHANGED <<max_cache_size, eviction_policy, fast, dispatcher, construction,
                   rotation, threads, policy>>

NextM == \E arg \in ArgPool : Call(arg)

SpecM == InitM /\ [][NextM]_vars

\* ------------------------------------------------------------ construction
\* DiscordWebHookHandler(...) from line 547 on: the loop thread has been
\* started, the caller goes on to line 553. The arguments are any the caller
\* may pass, valid or not.
ProxyPool == {"none", "http://", "socks5://", "ftp://"}

valid_schemes == {"http://", "https://", "socks5://"}

\* lines 576-598: the checks of _validate_parameters() before the probe
ParametersValid ==
    /\ flush_interval > 0
    /\ throttle_limit > 0
    /\ capacity > 0
    /\ proxy = "none" \/ proxy \in valid_schemes

InitC ==
    /\ NoRotation
    /\ NoOthers
    /\ InitState
    /\ capacity \in 0..MaxCapacity
    /\ flush_interval \in 0..MaxPeriod
    /\ throttle_limit \in 0..MaxPeriod
    /\ flush_on_close = FALSE
    /\ has_format_batch = FALSE
    /\ proxy \in ProxyPool
    /\ ctor_st = "running"
    /\ loop_running = FALSE
    /\ validation = "none"

\* lines 565-566: the loop thread reaches loop.run_forever()
LoopStart ==
    /\ loop_running = FALSE
    /\ loop_running' = TRUE
    /\ UNCHANGED <<ctor_st, validation, proxy, dispatcher, rotation, others>>

\* lines 553-554: the caller's thread tests loop.is_running(), hands
\* _validate_parameters() to the loop when the loop is not running yet, drops
\* the future, and the constructor returns
CtorFinish ==
    /\ ctor_st = "running"
    /\ validation' = IF ~loop_running THEN "scheduled" ELSE validation
    /\ ctor_st' = "returned"
    /\ UNCHANGED <<loop_running, proxy, dispatcher, rotation, others>>

\* lines 576-604: the loop runs _validate_parameters() up to the await of the
\* probe; a ValueError ends the coroutine and is kept by its future
ValidateStart ==
    /\ validation = "scheduled"
    /\ loop_running
    /\ validation' = IF ParametersValid THEN "probing" ELSE "raised"
    /\ UNCHANGED <<ctor_st, loop_running, proxy, dispatcher, rotation, others>>

\* lines 603-606: the probe is answered; a status other than 204 becomes a
\* ValueError, a transport failure or a timeout leaves as it is, each kept by
\* the future
ProbeRespond(resp) ==
    /\ validation = "probing"
    /\ validation' = IF resp = "204" THEN "passed" ELSE "raised"
    /\ UNCHANGED <<ctor_st, loop_running, proxy, dispatcher, rotation, others>>

NextC ==
    \/ LoopStart
    \/ CtorFinish
    \/ ValidateStart
    \/ \E resp \in Responses : ProbeRespond(resp)

SpecC == InitC /\ [][NextC]_vars

\* ------------------------------------------------------ retry specification
\* A dispatcher that is never closed, with the handler's own text formatting,
\* an endpoint whose answers are successes from time HealthyFrom on, and an
\* event loop that runs what is ready: a ready coroutine is resumed, a request
\* is answered or times out, a sleep ends, time passes.
TextPool == {[is_urgent |-> u, out |-> "text"] : u \in BOOLEAN}

InitL ==
    /\ Constructed
    /\ NoRotation
    /\ NoOthers
    /\ capacity \in 1..MaxCapacity
    /\ flush_interval \in 1..MaxPeriod
    /\ throttle_limit \in 1..MaxPeriod
    /\ flush_on_close = FALSE
    /\ has_format_batch = FALSE
    /\ InitState

NetRespondL(i, resp) ==
    /\ resp # "204" => now < HealthyFrom
    /\ NetRespond(i, resp)

NextL ==
    \/ \E t \in Threads : EmitCall(t, MaxEmits)
    \/ \E t \in Threads, tmpl \in TextPool : EmitBody(t, tmpl)
    \/ \E i \in 1..MaxFlushes : FlushStart(i)
    \/ \E i \in 1..MaxFlushes, resp \in Responses : NetRespondL(i, resp)
    \/ \E i \in 1..MaxFlushes : FlushResume(i)
    \/ PeriodicStart
    \/ PeriodicWake
    \/ Tick

SpecL ==
    /\ InitL
    /\ [][NextL]_vars
    /\ WF_vars(\E i \in 1..MaxFlushes : FlushStart(i))
    /\ WF_vars(\E i \in 1..MaxFlushes, resp \in Responses : NetRespondL(i, resp))
    /\ WF_vars(\E i \in 1..MaxFlushes : FlushResume(i))
    /\ WF_vars(PeriodicStart)
    /\ WF_vars(PeriodicWake)
    /\ WF_vars(Tick)

\* ---------------------------------------------------------------- helpers
Last(s) == s[Len(s)]

Range(s) == {s[i] : i \in 1..Len(s)}

\* The step in which thread t runs the critical section of emit
EmitStep(t) == pc[t] = "emit" /\ pc'[t] = "idle"

\* The step in which the pending coroutine i runs up to its send or its return
FlushStartStep(i) ==
    /\ NextPending(i)
    /\ \/ tasks' = RemoveAt(tasks, i)
       \/ Len(tasks') = Len(tasks) /\ tasks'[i].st = "sending"

\* The step in which coroutine i, its request in flight, ends with an exception
FlushFailStep(i) ==
    /\ i \in 1..Len(tasks)
    /\ tasks[i].st = "sending"
    /\ tasks' = RemoveAt(tasks, i)

\* The step in which coroutine i ends after its send succeeded
FlushDoneStep(i) ==
    /\ i \in 1..Len(tasks)
    /\ tasks[i].st = "responded"
    /\ tasks' = RemoveAt(tasks, i)

InFlight(i) == i \in 1..Len(tasks) /\ tasks[i].st \in {"sending", "responded"}

\* The payload carries the formatted record id: as a line of content or as an embed
Carries(payload, id) ==
    \/ \E j \in 1..Len(payload.content) : payload.content[j] = id
    \/ \E j \in 1..Len(payload.embeds) : payload.embeds[j].id = id

\* ------------------------------------------------------------------ claims
\* C1: emit never waits for network I/O: a thread that has called emit is not
\* kept from the lock while a webhook send is in flight.
C1_EmitNeverWaitsForSend ==
    \A t \in Threads :
        (pc[t] = "emit" /\ \E i \in 1..Len(tasks) : tasks[i].st = "sending") => LockFree

\* C2: when the send of a flush fails, the buffer after that flush is the
\* buffer the flush found when it started.
C2_FailedFlushKeepsBuffer ==
    [][\A i \in 1..MaxFlushes : FlushFailStep(i) => buffer' = tasks[i].buf0]_vars

\* C3: when the send of a flush succeeds, the buffer is empty when the flush
\* finishes and last_sent_time is at or after the moment the send succeeded.
C3_SuccessEmptiesAndStamps ==
    [][\A i \in 1..MaxFlushes :
          FlushDoneStep(i) => buffer' = <<>> /\ last_sent_time' >= tasks[i].resp_at]_vars

\* C3 witness: a send succeeded at a time after construction and its flush
\* has finished.
C3_Witness == last_sent_time > 0 /\ buffer = <<>> /\ created > 0 /\ tasks = <<>>

\* C4 as claimed: an emit of a record that is not urgent schedules no flush
\* while the buffer is shorter than capacity and exactly one flush when the
\* buffer length reaches capacity.
C4_Original ==
    [][\A t \in Threads :
          (EmitStep(t) /\ ~Last(buffer').is_urgent /\ Len(buffer') <= capacity)
              => IF Len(buffer') = capacity
                   THEN scheduled' = scheduled + 1
                   ELSE scheduled' = scheduled]_vars

\* C4 as amended: an emit of a record that is not urgent, made less than
\* throttle_limit after last_sent_time, schedules no flush while it leaves the
\* buffer shorter than capacity; the emit that brings the buffer length to
\* capacity schedules exactly one flush; so does any emit made throttle_limit
\* or more after last_sent_time.
C4_CapacityTrigger ==
    [][\A t \in Threads :
          (EmitStep(t) /\ ~Last(buffer').is_urgent /\ Len(buffer') <= capacity)
              => IF Len(buffer') = capacity \/ throttle_elapsed
                   THEN scheduled' = scheduled + 1 /\ Len(tasks') = Len(tasks) + 1
                   ELSE scheduled' = scheduled /\ tasks' = tasks]_vars

\* C4 witness: capacity >= 2 records, none urgent, were emitted from an empty
\* buffer within the throttle period and only the last one scheduled a flush.
C4_Witness ==
    /\ capacity >= 2
    /\ Len(buffer) = capacity
    /\ created = capacity
    /\ \A k \in 1..Len(buffer) : ~buffer[k].is_urgent
    /\ ~throttle_elapsed
    /\ scheduled = 1
    /\ Len(tasks) = 1 /\ tasks[1].trigger = "forced" /\ tasks[1].st = "pending"

\* C5: every emit of a record with a true is_urgent marker schedules a flush
\* in that same call, whatever the buffer length and the time since
\* last_sent_time.
C5_UrgentSchedules ==
    [][\A t \in Threads :
          (EmitStep(t) /\ Last(buffer').is_urgent)
              => /\ scheduled' = scheduled + 1
                 /\ Len(tasks') = Len(tasks) + 1
                 /\ Last(tasks').st = "pending"]_vars

\* C5 witness: an urgent record was just emitted into a buffer below capacity
\* within the throttle period, and its flush is scheduled.
C5_Witness ==
    /\ buffer # <<>>
    /\ Last(buffer).is_urgent
    /\ Len(buffer) < capacity
    /\ ~throttle_elapsed
    /\ tasks # <<>>
    /\ Last(tasks).st = "pending" /\ Last(tasks).trigger = "forced"

C7_SoftSendsThrottled ==
    [][\A i \in 1..MaxFlushes :
          (/\ NextPending(i)
           /\ tasks[i].trigger \in {"periodic", "throttle"}
           /\ Len(tasks') = Len(tasks) /\ tasks'[i].st = "sending"
           /\ last_soft_send >= 0)
              => now - last_soft_send >= throttle_limit]_vars

\* C8: a flush that starts with an empty buffer makes no webhook request and
\* changes neither the buffer nor last_sent_time.
C8_EmptyFlushNoop ==
    [][\A i \in 1..MaxFlushes :
          (FlushStartStep(i) /\ buffer = <<>>)
              => /\ requests' = requests
                 /\ tasks' = RemoveAt(tasks, i)
                 /\ buffer' = buffer
                 /\ last_sent_time' = last_sent_time]_vars

\* C8 witness: flushes were scheduled and have finished while no record was
\* ever emitted, and no request was made.
C8_Witness == scheduled >= 1 /\ tasks = <<>> /\ created = 0 /\ requests = 0

\* C9: every webhook request made by a flush carries a payload with at least
\* one of the keys content and embeds.
C9_PayloadNeverEmpty ==
    \A i \in 1..Len(tasks) : InFlight(i) => tasks[i].payload.keys # {}

\* C10: when close() has finished, by returning or by raising, the periodic
\* flush task has been cancelled.
C10_ClosedMeansCancelled ==
    close_st \in {"returned", "raised"} => flush_task = "cancelled"

\* The step in which the pending coroutine i builds its payload and makes its
\* request
FlushSendStep(i) ==
    /\ NextPending(i)
    /\ Len(tasks') = Len(tasks)
    /\ tasks'[i].st = "sending"

\* C11: after close() has returned on a dispatcher without flush_on_close, no
\* flush makes a request that carries a record that was in the buffer when
\* close() was called.
C11_ClosedBufferNeverSent ==
    [][\A i \in 1..MaxFlushes :
          (close_st = "returned" /\ ~flush_on_close /\ FlushSendStep(i))
              => \A id \in 1..close_created : ~Carries(tasks'[i].payload, id)]_vars

\* C12: a failed flush that the periodic task had scheduled leaves the
\* periodic task as it was while close() has not been called: asleep, its
\* next flush due no later than flush_interval from now.
C12_PeriodicSurvivesFailure ==
    [][\A i \in 1..MaxFlushes :
          (FlushFailStep(i) /\ tasks[i].trigger = "periodic" /\ close_st = "open")
              => /\ flush_task' = "sleeping"
                 /\ wake_at' = wake_at
                 /\ wake_at' <= now + flush_interval]_vars

\* C12 witness: the only request so far was made at time 1 by a periodic flush
\* (the throttle period had not elapsed then) and failed, the record is still
\* buffered, and at time 2 the periodic task has scheduled the next flush.
C12_Witness ==
    /\ flush_interval = 1 /\ throttle_limit = 2 /\ capacity = 2
    /\ close_st = "open"
    /\ created = 1 /\ Len(buffer) = 1
    /\ requests = 1 /\ last_soft_send = 1 /\ last_sent_time = 0
    /\ now = 2
    /\ flush_task = "sleeping"
    /\ scheduled = 2
    /\ Len(tasks) = 1 /\ tasks[1].trigger = "periodic" /\ tasks[1].st = "pending"

\* C15: no record is carried by two webhook requests that were both answered
\* with success.
C15_NoRecordSentTwice ==
    \A i, j \in 1..Len(tasks) :
        (i # j /\ tasks[i].st = "responded" /\ tasks[j].st = "responded")
            => \A id \in 1..created :
                  ~(Carries(tasks[i].payload, id) /\ Carries(tasks[j].payload, id))

\* The formatted output of record r is one that the path taken by the flush
\* turns into a payload item: a non-empty text or a wrapped embed on the
\* per-record path, an embed mapping on the batch path.
Accepted(r) ==
    IF has_format_batch THEN r.out = "embed" ELSE r.out \in {"text", "wrapped"}

InContent(payload, id) == \E j \in 1..Len(payload.content) : payload.content[j] = id

InEmbeds(payload, id) == \E j \in 1..Len(payload.embeds) : payload.embeds[j].id = id

InBuffer(id) == \E k \in 1..Len(buffer) : buffer[k].id = id

\* A request that carries record id has been answered with success
Sent(id) == \E i \in 1..Len(tasks) : tasks[i].st = "responded" /\ Carries(tasks[i].payload, id)

\* Record id is buffered, sends succeed from now on, and a flush is on the
\* loop or the periodic task can still schedule one within the flush budget
\* and the clock of the model
Retriable(id) ==
    /\ InBuffer(id)
    /\ close_st = "open"
    /\ now >= HealthyFrom
    /\ \/ tasks # <<>>
       \/ scheduled < MaxFlushes /\ flush_task = "sleeping" /\ wake_at <= MaxTime

\* C14: under a fairly scheduled loop and a dispatcher that is not closed, a
\* buffered record, from the time on at which every send succeeds, is
\* eventually carried by a request answered with success, and is then
\* removed from the buffer.
C14_BufferedIsEventuallySent ==
    \A id \in 1..MaxEmits :
        /\ Retriable(id) ~> Sent(id)
        /\ Sent(id) ~> ~InBuffer(id)

\* C14 witness: the one request made so far has failed, its record is still
\* buffered, sends succeed from now on and the periodic task is asleep with
\* flush budget left.
C14_Witness ==
    /\ created = 1 /\ requests = 1 /\ tasks = <<>>
    /\ last_sent_time = 0
    /\ Retriable(1)

\* C13: a constructor call returns a handler only when capacity,
\* flush_interval and throttle_limit are strictly positive, the proxy scheme
\* is a recognised one and the probe was not answered with a failure.
C13_InvalidConstructionRaises ==
    ctor_st = "returned" => ParametersValid /\ validation # "raised"

Min(a, b) == IF a < b THEN a ELSE b

\* The indices of the numbered backups that exist
Backups == {index \in DOMAIN numbered : Exists(numbered[index])}

\* C17: in numeric mode, after N rollovers that all completed, the numbered
\* backups are <base>.1 .. <base>.min(N, backup_count) and <base>.1 holds
\* what the latest rollover rotated out.
C17_NumericBackupCount ==
    (backup_extension_type = "count" /\ failed = 0)
        => LET N == Len(rotated)
               m == Min(N, backup_count)
           IN /\ Backups = 1..m
              /\ m >= 1 => numbered[1] = rotated[N]

RolloverDone == Len(rotated') = Len(rotated) + 1

EmitRolloverRaised == emitted' = emitted + 1 /\ emit_res' = "rollover raised"

\* The files of the directory, each as its identity and its size
FilesNow ==
    {<<live.gen, live.n>>}
        \cup {<<numbered[index].gen, numbered[index].n>> : index \in DOMAIN numbered}
        \cup {<<x.gen, x.n>> : x \in stamped}

InRollover(t) == tstep[t] \in {"reset", "relock", "files", "open"}

\* Thread u, inside emit(), checks, writes or rotates in this step
EmitActs(u) ==
    /\ tcall[u] = "emit"
    /\ tstep[u] \in {"check", "write", "close", "reset", "files", "open"}
    /\ tstep'[u] # tstep[u]

\* C21: every step of a rollover that touches the stream or the filesystem
\* is executed while the re-entrant lock is held, so that no other thread's
\* emit checks, writes or rotates between the first and the last step of a
\* rollover.
C21_RolloverExcludesEmit ==
    [][\A t \in Threads :
          InRollover(t) => \A u \in Threads \ {t} : ~EmitActs(u)]_vars

\* C23: for every policy accepted by validation and every current time,
\* compute_rollover returns a timestamp strictly greater than the current
\* time.
C23_NextRolloverIsLater ==
    current # Never => next_rollover > clock

\* C24: for a weekly policy Wd, when the current time falls on weekday d,
\* the next rollover is at least 6 days and at most 7 days after the current
\* time, for every time of day and every at_time anchor.
C24_WeeklySameDay ==
    (/\ current # Never
     /\ when \in DOMAIN day_of_week
     /\ Weekday(current) = day_of_week[when])
    => /\ next_rollover - clock >= 6 * Day
       /\ next_rollover - clock <= 7 * Day

\* An emit() call is made in this step
EmitChecks == emitted' = emitted + 1

\* The size of the file that should_rollover() looks at, which it creates
\* when there is neither stream nor file
SizeSeen == IF stream = "none" /\ ~Exists(live) THEN 0 ELSE live.n

SizeDue == max_bytes > 0 /\ SizeSeen >= max_bytes

TimeDue == rnow >= rollover_at

\* emit() went on to do_rollover(): should_rollover() returned true
RollsOver == Len(rotated') + failed' > Len(rotated) + failed

CachedKeys(entries) == {entries[i].key : i \in 1..Len(entries)}

\* C25: under the LRU policy the cache holds at most max_cache_size entries
\* after any sequence of calls, a negative max_cache_size being treated as 0,
\* so that nothing stays cached and every call recomputes; and when an
\* insertion overflows the cache, the entry removed is the least recently
\* used one, a cache hit counting as a use.
C25_LruBoundAndOrder ==
    /\ [](eviction_policy = "LRU" =>
             Len(cache) <= (IF max_cache_size < 0 THEN 0 ELSE max_cache_size))
    /\ [][(eviction_policy = "LRU" /\ mcalls' = mcalls + 1) =>
             /\ max_cache_size <= 0 => computed' = computed + 1 /\ cache' = <<>>
             /\ \A key \in CachedKeys(cache) \ CachedKeys(cache') :
                   \A other \in CachedKeys(cache) : last_use[key] <= last_use[other]]_vars

\* C26: a call of the decorated function returns, for every argument and
\* every configuration, the value that the undecorated function returns for
\* this argument, whether computed or taken from the cache.
C26_ReturnsFunctionValue ==
    mcalls > 0 => returned = func(last_args)

\* C27: for the same buffered records and a formatter whose format_batch is
\* the list of its format results, the payload that flush builds through the
\* batch path equals the payload it would build through the per-record path.
C27_BatchEqualsPerRecord ==
    [][\A i \in 1..MaxFlushes :
          FlushSendStep(i)
              => tasks'[i].payload = BuildPayload(IF has_format_batch
                                                    THEN PerRecordContent(buffer)
                                                    ELSE BatchContent(buffer))]_vars

\* C28: the dispatcher never silently drops a record: every record that a
\* flush removes from the buffer is represented, as a text line or as an
\* embed, in the payload of the successful send that preceded the clear.
C28_NoRecordDropped ==
    [][\A i \in 1..MaxFlushes :
          FlushDoneStep(i)
              => \A k \in 1..Len(buffer) :
                    buffer[k] \in Range(buffer') \/ Carries(tasks[i].payload, buffer[k].id)]_vars

\* C29: a timestamp-mode rollover deletes only backups of its own log file: a
\* timestamped file of another handler in the same directory is never
\* deleted by it.
C29_ForeignFilesKept ==
    [][(Foreign \in stamped) => (Foreign \in stamped')]_vars

\* C30: a rollover that fails leaves the files as they were before it
\* started: the backups and their contents and the live log file are
\* unchanged, in numeric mode and in timestamp mode, and rollover_at keeps
\* its value.
C30_FailedRolloverChangesNothing ==
    [][(failed' = failed + 1 /\ emitted' = emitted)
          => /\ live' = live
             /\ numbered' = numbered
             /\ stamped' = stamped
             /\ rollover_at' = rollover_at]_vars

====
